---- MODULE Spec2Model ----
(***************************************************************************)
(* Model of gcp/table_gcp_admin_reports_login_activity.go: the list        *)
(* hydrate function listGcpAdminReportsLoginActivities, the host query     *)
(* data it reads (row limit, qualifiers, streamed rows) and the remote     *)
(* Admin Reports source it pages through.                                  *)
(*                                                                         *)
(* Conventions.  A Go pointer or an optional value is a sequence of length *)
(* 0 (nil) or 1.  An instant is an integer count of nanoseconds; Second is *)
(* the number of nanoseconds per second, scaled down.  An RFC3339 string   *)
(* (second resolution) is represented by the whole number of seconds it    *)
(* spells.  Activity records are the serial numbers the remote source      *)
(* gives them in the order it serves them.                                 *)
(***************************************************************************)
EXTENDS Integers, Sequences, FiniteSets, TLC

\* ------------------------------------------------------------ bounds
\* time.Second in nanoseconds, scaled down from 10^9
Second == 3
\* qualifier instants range over MaxTick+1 consecutive nanoseconds
MaxTick == 1
\* longest list of qualifiers on the time column
MaxTimeQuals == 2
\* longest list of qualifiers on a string key column
MaxStrQuals == 2
\* largest small row limit tried (besides the limits around the cap)
MaxLimit == 2
\* the remote source serves at most MaxPages non-empty pages
MaxPages == 2
\* small page sizes the remote source may return whatever was requested
MaxSmallPage == 1
\* the remote source may return up to MaxOver records more than requested
MaxOver == 1
\* the count of page requests saturates at MaxCalls
MaxCalls == 2
\* a fetch that is to be repeated issues at most MaxTrace page requests
MaxTrace == 3
\* longest events list of an activity record
MaxEvents == 3

\* ------------------------------------------------------------ program constants
maxTotalResults == 500

Nanosecond == 1
Hour == 3600 * Second
DefaultLookback == 180 * 24 * Hour

None == <<>>
Some(x) == <<x>>

Min(a, b) == IF a < b THEN a ELSE b

\* ------------------------------------------------------------ table declaration
\* the list key columns: only these names ever appear in d.Quals
ListKeyColumns == {"time", "actor_email", "ip_address", "event_name"}
TimeOperators == {">", ">=", "<", "<=", "="}

\* ------------------------------------------------------------ pure parts of the list function
\* lines 145-152: the page size of the first request
InitialPageSize(lim) ==
    IF lim # None /\ lim[1] < maxTotalResults THEN lim[1] ELSE maxTotalResults

\* mutant: the case "<=" is missing
ApplyTimeQual_NoUpper(w, q) ==
    IF q.value = None THEN w
    ELSE LET t == q.value[1] IN
         CASE q.op = "="  -> [start |-> t, end |-> t]
           [] q.op = ">"  -> [w EXCEPT !.start = t + Nanosecond]
           [] q.op = ">=" -> [w EXCEPT !.start = t]
           [] q.op = "<"  -> [w EXCEPT !.end = t - Nanosecond]
           [] OTHER       -> w

\* mutant: "<" keeps the value itself as the end bound
ApplyTimeQual_InclusiveLess(w, q) ==
    IF q.value = None THEN w
    ELSE LET t == q.value[1] IN
         CASE q.op = "="  -> [start |-> t, end |-> t]
           [] q.op = ">"  -> [w EXCEPT !.start = t + Nanosecond]
           [] q.op = ">=" -> [w EXCEPT !.start = t]
           [] q.op = "<"  -> [w EXCEPT !.end = t]
           [] q.op = "<=" -> [w EXCEPT !.end = t]
           [] OTHER       -> w

\* lines 162-177: one time qualifier applied to the window w
ApplyTimeQual(w, q) ==
    IF q.value = None THEN w
    ELSE LET t == q.value[1] IN
         CASE q.op = "="  -> [start |-> t, end |-> t]
           [] q.op = ">"  -> [w EXCEPT !.start = t + Nanosecond]
           [] q.op = ">=" -> [w EXCEPT !.start = t]
           [] q.op = "<"  -> [w EXCEPT !.end = t - Nanosecond]
           [] q.op = "<=" -> [w EXCEPT !.end = t]
           [] OTHER       -> w

\* lines 158-179: the loop over the time qualifiers, from the default window
RECURSIVE FoldTimeQuals(_, _)
FoldTimeQuals(w, qs) ==
    IF qs = <<>> THEN w
    ELSE FoldTimeQuals(ApplyTimeQual(w, Head(qs)), Tail(qs))

DefaultWindow(n) == [start |-> n - DefaultLookback, end |-> n]

\* mutant: the comparison of line 180 with its operands swapped
WindowNotEmpty_Swapped(w) == ~(w.end > w.start)

\* line 180: !startTime.After(endTime)
WindowNotEmpty(w) == ~(w.start > w.end)

\* time.Time.Format(time.RFC3339): second resolution, the fraction is dropped
FormatRFC3339(t) == t \div Second

\* the instant an RFC3339 string denotes to the remote source
InstantOf(s) == s * Second

\* d.Quals[name]: nil (no iteration) for a name that is no key column
GetQuals(q, name) == IF name \in DOMAIN q THEN q[name] ELSE <<>>

\* lines 189-195: the first qualifier with a non-empty string value, then break
RECURSIVE FirstNonEmpty(_)
FirstNonEmpty(qs) ==
    IF qs = <<>> THEN None
    ELSE IF Head(qs) # "" THEN Some(Head(qs))
    ELSE FirstNonEmpty(Tail(qs))

FilterExpr(field, v) == field \o "==" \o "\"" \o v \o "\""

\* call.Filters(filter): one more filter expression on the call
CallFilters(c, filter) == [c EXCEPT !.filters = Append(@, filter)]

\* mutant: only the first qualifier of the column is looked at
AddFilter_HeadOnly(c, field, qs) ==
    IF qs = <<>> \/ Head(qs) = "" THEN c
    ELSE CallFilters(c, FilterExpr(field, Head(qs)))

\* lines 188-196 (198-206, 208-216): the filter block of one column
AddFilter(c, field, qs) ==
    LET v == FirstNonEmpty(qs) IN
    IF v = None THEN c ELSE CallFilters(c, FilterExpr(field, v[1]))

\* lines 187-216: the three filter blocks, in order
AddFilters(c, q) ==
    AddFilter(AddFilter(AddFilter(c, "actor.email", GetQuals(q, "actor_email")),
                        "ipAddress", GetQuals(q, "ip_address")),
              "events.name", GetQuals(q, "event_names"))

\* mutant: the next page size ignores the row limit
NextPageSize_IgnoreLimit(lim, tc) == maxTotalResults - tc

\* lines 251-262: the size of the next page, before the <= 0 tests
NextPageSize(lim, tc) ==
    LET remaining == maxTotalResults - tc IN
    IF lim # None /\ remaining > lim[1] - tc THEN lim[1] - tc ELSE remaining

\* ------------------------------------------------------------ inputs
T0 == 200 * 24 * Hour
TimeValues == {T0 - 2 * Second + i : i \in 0..MaxTick}
NowValues == {T0 - Nanosecond, T0}
EmailValues == {"", "a@x.com", "b@x.com"}
IpValues == {"", "10.0.0.1"}
EventValues == {"", "login_success"}
Tokens == {"t1", "t2"}
Errors == {"e1", "e2"}

SeqsUpTo(S, n) == UNION {[1..k -> S] : k \in 0..n}

TimeQual == [op : TimeOperators, value : {None} \cup {Some(t) : t \in TimeValues}]
Limits == {None} \cup {Some(n) : n \in 0..MaxLimit}
          \cup {Some(maxTotalResults + 1)}

\* ------------------------------------------------------------ state
VARIABLES
    pc,          \* position in listGcpAdminReportsLoginActivities
    limit,       \* d.QueryContext.Limit
    quals,       \* d.Quals
    streamed,    \* the rows handed to d.StreamListItem, in order
    now,         \* time.Now(), once read
    window,      \* startTime, endTime, once resolved
    call,        \* the ActivitiesListCall under construction
    totalCount,  \* totalCount
    pageToken,   \* pageToken
    resp,        \* resp of the last call.Do()
    idx,         \* position of the range loop in resp.Items
    err,         \* the error returned, if any
    lastReq,     \* the last page request put on the wire
    calls,       \* number of page requests issued (saturating)
    served,      \* remote source: records served so far
    pages,       \* remote source: non-empty pages served so far
    doErr,       \* the error call.Do() last returned, if any
    svcErr,      \* the error ReportsService returned, if any
    run,         \* 0: a single fetch; 1, 2: a fetch and its repetition
    trace,       \* run > 0: the page requests of this fetch and their answers
    prev,        \* run = 2: what the first fetch did
    activity,    \* the record (or the key) a transform or the lookup is given
    result       \* what the transform or the lookup returned

vars == <<pc, limit, quals, streamed, now, window, call, totalCount, pageToken,
          resp, idx, err, lastReq, calls, served, pages, doErr, svcErr,
          run, trace, prev, activity, result>>

\* the variables the list function never touches
aux == <<run, prev, activity, result>>

NoCall == [maxResults |-> None, startTime |-> None, endTime |-> None,
           filters |-> <<>>, pageToken |-> None]
NoResp == [items |-> <<>>, nextPageToken |-> ""]

InitRest ==
    /\ pc = "service"
    /\ streamed = <<>>
    /\ now = None
    /\ window = None
    /\ call = NoCall
    /\ totalCount = 0
    /\ pageToken = ""
    /\ resp = NoResp
    /\ idx = 0
    /\ err = None
    /\ lastReq = None
    /\ calls = 0
    /\ served = 0
    /\ pages = 0
    /\ doErr = None
    /\ svcErr = None
    /\ trace = <<>>
    /\ prev = None

\* every row limit, a few qualifier sets
Init ==
    /\ limit \in Limits
    /\ quals \in [time : {<<>>},
                  actor_email : {<<>>, <<"a@x.com">>},
                  ip_address : {<<>>},
                  event_name : {<<>>}]
    /\ InitRest
    /\ run = 0
    /\ activity = None
    /\ result = None

\* every list of time qualifiers, one row limit
TimeInit ==
    /\ limit = Some(1)
    /\ quals \in [time : SeqsUpTo(TimeQual, MaxTimeQuals),
                  actor_email : {<<>>},
                  ip_address : {<<>>},
                  event_name : {<<>>}]
    /\ InitRest
    /\ run = 0
    /\ activity = None
    /\ result = None

\* every list of string qualifiers, one row limit
FilterInit ==
    /\ limit = Some(1)
    /\ quals \in [time : {<<>>},
                  actor_email : SeqsUpTo(EmailValues, MaxStrQuals),
                  ip_address : SeqsUpTo(IpValues, MaxStrQuals),
                  event_name : SeqsUpTo(EventValues, MaxStrQuals)]
    /\ InitRest
    /\ run = 0
    /\ activity = None
    /\ result = None

\* ------------------------------------------------------------ host (plugin SDK)
\* d.StreamListItem(ctx, activity): the row reaches the caller
StreamListItem(row) == streamed' = Append(streamed, row)

\* d.RowsRemaining(ctx) == 0: the rows required by the limit, less the rows streamed
RowsRemainingIsZero == limit # None /\ limit[1] - Len(streamed) = 0

\* ------------------------------------------------------------ remote source
\* the sizes of the page the remote source may answer a request with
PageSizes(req) ==
    {0} \cup (IF pages < MaxPages
              THEN (1..MaxSmallPage) \cup {n \in req..(req + MaxOver) : n > 0}
              ELSE {})

\* the next n records of the remote log
NextRecords(n) == [i \in 1..n |-> served + i]

\* ------------------------------------------------------------ an unchanged environment
\* In the repetition of a fetch (run = 2) the service construction ends as it
\* did the first time, the remote source answers the k-th page request as it
\* answered the first fetch's k-th when the two requests are equal, and the
\* clock has not gone back.
ServiceMayAnswer(e) == run = 2 => e = prev[1].svcErr

RemoteMayAnswer(out) ==
    LET k == Len(trace) + 1 IN
    (run = 2 /\ k <= Len(prev[1].trace) /\ prev[1].trace[k].req = lastReq[1])
        => out = prev[1].trace[k].out

ClockMayRead(n) == (run = 2 /\ prev[1].now # None) => n >= prev[1].now[1]

\* the exchange added to the trace of a fetch that is to be compared
Recorded(out) ==
    IF run = 0 THEN trace ELSE Append(trace, [req |-> lastReq[1], out |-> out])

\* ------------------------------------------------------------ the list function, step by step
\* mutant: the service error is logged and the function goes on
OnServiceError_GoOn(e) ==
    /\ err' = err
    /\ pc' = "pagesize"

\* lines 134-137, what the function does when ReportsService fails
OnServiceError(e) ==
    /\ err' = Some(e)
    /\ pc' = "done"

\* lines 133-139
CreateService ==
    /\ pc = "service"
    /\ \/ \E e \in Errors :
            /\ ServiceMayAnswer(Some(e))
            /\ svcErr' = Some(e)
            /\ OnServiceError(e)
       \/ /\ ServiceMayAnswer(None)
          /\ pc' = "pagesize"
          /\ UNCHANGED <<err, svcErr>>
    /\ UNCHANGED <<limit, quals, streamed, now, window, call, totalCount,
                   pageToken, resp, idx, lastReq, calls, served, pages, doErr>>
    /\ UNCHANGED <<trace, aux>>

\* lines 141-154
SetInitialPageSize ==
    /\ pc = "pagesize"
    /\ call' = [call EXCEPT !.maxResults = Some(InitialPageSize(limit))]
    /\ pc' = "window"
    /\ UNCHANGED <<limit, quals, streamed, now, window, totalCount, pageToken,
                   resp, idx, err, lastReq, calls, served, pages, doErr>>
    /\ UNCHANGED <<svcErr, trace, aux>>

\* lines 156-185
ResolveWindow ==
    /\ pc = "window"
    /\ \E n \in {m \in NowValues : ClockMayRead(m)} :
         LET w == FoldTimeQuals(DefaultWindow(n), GetQuals(quals, "time")) IN
         /\ now' = Some(n)
         /\ window' = Some(w)
         /\ IF WindowNotEmpty(w)
            THEN /\ call' = [call EXCEPT !.startTime = Some(FormatRFC3339(w.start)),
                                         !.endTime = Some(FormatRFC3339(w.end))]
                 /\ pc' = "filters"
            ELSE /\ pc' = "done"
                 /\ UNCHANGED call
    /\ UNCHANGED <<limit, quals, streamed, totalCount, pageToken, resp, idx,
                   err, lastReq, calls, served, pages, doErr>>
    /\ UNCHANGED <<svcErr, trace, aux>>

\* lines 187-220
BuildFilters ==
    /\ pc = "filters"
    /\ call' = AddFilters(call, quals)
    /\ totalCount' = 0
    /\ pageToken' = ""
    /\ pc' = "loop"
    /\ UNCHANGED <<limit, quals, streamed, now, window, resp, idx, err,
                   lastReq, calls, served, pages, doErr>>
    /\ UNCHANGED <<svcErr, trace, aux>>

\* mutant: the continuation token is never put on the call
CallToSend_NoToken(c, tok) == c

\* the call as call.Do() sends it: PageToken is set first when pageToken # ""
CallToSend(c, tok) == IF tok # "" THEN [c EXCEPT !.pageToken = Some(tok)] ELSE c

\* lines 222-225: the page request goes on the wire
CallDo ==
    /\ pc = "loop"
    /\ run > 0 => Len(trace) < MaxTrace
    /\ call' = CallToSend(call, pageToken)
    /\ lastReq' = Some(call')
    /\ calls' = Min(calls + 1, MaxCalls)
    /\ pc' = "await"
    /\ UNCHANGED <<limit, quals, streamed, now, window, totalCount, pageToken,
                   resp, idx, err, served, pages, doErr>>
    /\ UNCHANGED <<svcErr, trace, aux>>

\* mutant: a failed call.Do() is tried again
OnDoError_Retry(e) ==
    /\ err' = err
    /\ pc' = "loop"

\* lines 226-229, what the function does with a failed call.Do()
OnDoError(e) ==
    /\ err' = Some(e)
    /\ pc' = "done"

\* lines 225-229: the remote source answers with an error
DoFails ==
    /\ pc = "await"
    /\ \E e \in Errors :
         LET out == [err |-> Some(e), items |-> <<>>, nextPageToken |-> ""] IN
         /\ RemoteMayAnswer(out)
         /\ trace' = Recorded(out)
         /\ doErr' = Some(e)
         /\ OnDoError(e)
    /\ UNCHANGED <<limit, quals, streamed, now, window, call, totalCount,
                   pageToken, resp, idx, lastReq, calls, served, pages>>
    /\ UNCHANGED <<svcErr, aux>>

\* lines 225-231: the remote source answers with a page
DoReturns ==
    /\ pc = "await"
    /\ \E n \in PageSizes(lastReq[1].maxResults[1]), tok \in {""} \cup Tokens :
         LET out == [err |-> None, items |-> NextRecords(n), nextPageToken |-> tok] IN
         /\ RemoteMayAnswer(out)
         /\ trace' = Recorded(out)
         /\ resp' = [items |-> out.items, nextPageToken |-> out.nextPageToken]
         /\ served' = served + n
         /\ pages' = IF n > 0 THEN pages + 1 ELSE pages
    /\ idx' = 1
    /\ pc' = "range"
    /\ UNCHANGED <<limit, quals, streamed, now, window, call, totalCount,
                   pageToken, err, lastReq, calls, doErr>>
    /\ UNCHANGED <<svcErr, aux>>

\* lines 231-234: the next record of the page is streamed, or the page is done
StreamItem ==
    /\ pc = "range"
    /\ IF idx <= Len(resp.items)
       THEN /\ StreamListItem(resp.items[idx])
            /\ totalCount' = totalCount + 1
            /\ pc' = "capcheck"
       ELSE /\ pc' = "token"
            /\ UNCHANGED <<streamed, totalCount>>
    /\ UNCHANGED <<limit, quals, now, window, call, pageToken, resp, idx, err,
                   lastReq, calls, served, pages, doErr>>
    /\ UNCHANGED <<svcErr, trace, aux>>

\* mutant: the cap test is off by one
CapReached_OffByOne(tc) == tc > maxTotalResults

\* line 236: totalCount >= maxTotalResults
CapReached(tc) == tc >= maxTotalResults

\* lines 236-238
CheckCap ==
    /\ pc = "capcheck"
    /\ pc' = IF CapReached(totalCount) THEN "done" ELSE "rowcheck"
    /\ UNCHANGED <<limit, quals, streamed, now, window, call, totalCount,
                   pageToken, resp, idx, err, lastReq, calls, served, pages, doErr>>
    /\ UNCHANGED <<svcErr, trace, aux>>

\* mutant: the record after the streamed one is stepped over
CheckRows_SkipOne ==
    /\ pc = "rowcheck"
    /\ IF RowsRemainingIsZero
       THEN pc' = "done" /\ UNCHANGED idx
       ELSE pc' = "range" /\ idx' = idx + 2
    /\ UNCHANGED <<limit, quals, streamed, now, window, call, totalCount,
                   pageToken, resp, err, lastReq, calls, served, pages, doErr>>
    /\ UNCHANGED <<svcErr, trace, aux>>

\* lines 240-243
CheckRows ==
    /\ pc = "rowcheck"
    /\ IF RowsRemainingIsZero
       THEN pc' = "done" /\ UNCHANGED idx
       ELSE pc' = "range" /\ idx' = idx + 1
    /\ UNCHANGED <<limit, quals, streamed, now, window, call, totalCount,
                   pageToken, resp, err, lastReq, calls, served, pages, doErr>>
    /\ UNCHANGED <<svcErr, trace, aux>>

\* lines 246-268: after the page, stop or size the next request
NextPage ==
    /\ pc = "token"
    /\ IF resp.nextPageToken = ""
       THEN pc' = "done" /\ UNCHANGED <<pageToken, call>>
       ELSE /\ pageToken' = resp.nextPageToken
            /\ IF maxTotalResults - totalCount <= 0
               THEN pc' = "done" /\ UNCHANGED call
               ELSE LET nextPageSize == NextPageSize(limit, totalCount) IN
                    IF limit # None /\ nextPageSize <= 0
                    THEN pc' = "done" /\ UNCHANGED call
                    ELSE /\ call' = [call EXCEPT !.maxResults = Some(nextPageSize)]
                         /\ pc' = "loop"
    /\ UNCHANGED <<limit, quals, streamed, now, window, totalCount, resp, idx,
                   err, lastReq, calls, served, pages, doErr>>
    /\ UNCHANGED <<svcErr, trace, aux>>

Next ==
    \/ CreateService
    \/ SetInitialPageSize
    \/ ResolveWindow
    \/ BuildFilters
    \/ CallDo
    \/ DoFails
    \/ DoReturns
    \/ StreamItem
    \/ CheckCap
    \/ CheckRows
    \/ NextPage

\* the same list invocation is made again: same row limit, same qualifiers,
\* fresh locals, a fresh call, and the remote source back at its first record
Repeat ==
    /\ run = 1
    /\ pc = "done"
    /\ run' = 2
    /\ prev' = Some([now |-> now, window |-> window, streamed |-> streamed,
                     trace |-> trace, svcErr |-> svcErr])
    /\ pc' = "service"
    /\ streamed' = <<>>
    /\ now' = None
    /\ window' = None
    /\ call' = NoCall
    /\ totalCount' = 0
    /\ pageToken' = ""
    /\ resp' = NoResp
    /\ idx' = 0
    /\ err' = None
    /\ lastReq' = None
    /\ calls' = 0
    /\ served' = 0
    /\ pages' = 0
    /\ doErr' = None
    /\ svcErr' = None
    /\ trace' = <<>>
    /\ UNCHANGED <<limit, quals, activity, result>>

RepeatNext == Next \/ Repeat

\* time qualifiers of a repeated fetch: none, a start only, a start and an end
RepeatTimeQuals ==
    LET lo == [op |-> ">=", value |-> Some(T0 - 2 * Second)]
        hi == [op |-> "<=", value |-> Some(T0 - Second)]
    IN {<<>>, <<lo>>, <<lo, hi>>}

\* a fetch that will be repeated: a row limit of one, closed and open windows
RepeatInit ==
    /\ limit = Some(1)
    /\ quals \in [time : RepeatTimeQuals,
                  actor_email : {<<>>},
                  ip_address : {<<>>},
                  event_name : {<<>>}]
    /\ InitRest
    /\ run = 1
    /\ activity = None
    /\ result = None

Spec == Init /\ [][Next]_vars
RepeatSpec == RepeatInit /\ [][RepeatNext]_vars
TimeSpec == TimeInit /\ [][Next]_vars
FilterSpec == FilterInit /\ [][Next]_vars
FairSpec == TimeInit /\ [][Next]_vars /\ WF_vars(Next)

\* ------------------------------------------- point lookup and transforms
\* a Go return (interface{}, error)
Return(v, e) == [value |-> v, err |-> e]

EventNames == {"", "login_success", "login_failure"}
TimeStrings == {"", "2024-01-01T00:00:00Z"}
ActorEmails == {"", "a@b.com"}

\* *adminreports.Activity: Events a slice (nil or not), Actor and Id pointers
Activities ==
    [Events : {None} \cup {Some(es) : es \in SeqsUpTo([Name : EventNames], MaxEvents)},
     Actor  : {None} \cup {Some([Email |-> e]) : e \in ActorEmails},
     Id     : {None} \cup {Some([Time |-> t]) : t \in TimeStrings}]

\* the key columns of the Get configuration
GetKeys ==
    [time : {"2024-01-01T00:00:00Z", "2024-01-02T00:00:00Z"},
     unique_qualifier : {"1", "2"},
     actor_email : {"a@b.com", "c@d.com"}]

\* mutant: the lookup answers with the key it was given
getGcpAdminReportsLoginActivity_Echo(key) == Return(Some(key), None)

getGcpAdminReportsLoginActivity(key) == Return(None, None)

\* transform.TransformData as the transforms of this table see it
TransformData(v, item) == [Value |-> v, HydrateItem |-> item]

\* transform.FromField("Events"): the field, nil when the slice is nil
FromFieldEvents(item) == item.Events

\* transform.FromField("Id.Time"): the nested field, nil when Id is nil
FromFieldIdTime(item) ==
    IF item.Id = None THEN None ELSE Some(item.Id[1].Time)

\* mutant: the length of the slice is not tested
extractFirstEventName_NoLenCheck(d) ==
    IF d.Value = None THEN Return(Some(""), None)
    ELSE IF Len(d.Value[1]) = 0 THEN Return(None, Some("index out of range"))
    ELSE Return(Some(d.Value[1][1].Name), None)

extractFirstEventName(d) ==
    IF d.Value = None \/ Len(d.Value[1]) = 0 THEN Return(Some(""), None)
    ELSE Return(Some(d.Value[1][1].Name), None)

\* mutant: every name is appended, the empty ones too
AppendName_KeepEmpty(names, e) == Append(names, e.Name)

\* the body of the loop of extractEventNames
AppendName(names, e) == IF e.Name # "" THEN Append(names, e.Name) ELSE names

RECURSIVE RangeEvents(_, _)
RangeEvents(names, es) ==
    IF es = <<>> THEN names
    ELSE RangeEvents(AppendName(names, Head(es)), Tail(es))

extractEventNames(d) ==
    IF d.HydrateItem.Events = None THEN Return(None, None)
    ELSE Return(Some(RangeEvents(<<>>, d.HydrateItem.Events[1])), None)

convertTimeToString(d) ==
    IF d.HydrateItem.Id = None \/ d.HydrateItem.Id[1].Time = ""
    THEN Return(Some(""), None)
    ELSE Return(Some(d.HydrateItem.Id[1].Time), None)

\* mutant: the separator and the email are appended whatever the email is
formatTitleWithActorEmail_AlwaysJoin(d) ==
    IF d.Value = None THEN Return(None, None)
    ELSE IF d.HydrateItem.Actor = None THEN Return(d.Value, None)
    ELSE Return(Some(d.Value[1] \o " - " \o d.HydrateItem.Actor[1].Email), None)

formatTitleWithActorEmail(d) ==
    IF d.Value = None THEN Return(None, None)
    ELSE IF d.HydrateItem.Actor = None \/ d.HydrateItem.Actor[1].Email = ""
    THEN Return(d.Value, None)
    ELSE Return(Some(d.Value[1] \o " - " \o d.HydrateItem.Actor[1].Email), None)

\* the columns event_name, tags and title: FromField(...).Transform(...)
EventNameColumn(item) ==
    extractFirstEventName(TransformData(FromFieldEvents(item), item))

TagsColumn(item) ==
    extractEventNames(TransformData(FromFieldEvents(item), item))

TitleColumn(item) ==
    LET t == convertTimeToString(TransformData(FromFieldIdTime(item), item))
    IN IF t.err # None THEN t
       ELSE formatTitleWithActorEmail(TransformData(t.value, item))

fetchVars ==
    <<pc, limit, quals, streamed, now, window, call, totalCount, pageToken,
      resp, idx, err, lastReq, calls, served, pages, doErr, svcErr, trace,
      run, prev>>

Computed(op, key, out) == Some([op |-> op, key |-> key, out |-> out])

Get ==
    /\ \E key \in GetKeys :
          result' = Computed("get", Some(key), getGcpAdminReportsLoginActivity(key))
    /\ UNCHANGED <<fetchVars, activity>>

ComputeEventName ==
    /\ activity # None
    /\ result' = Computed("event_name", None, EventNameColumn(activity[1]))
    /\ UNCHANGED <<fetchVars, activity>>

ComputeTags ==
    /\ activity # None
    /\ result' = Computed("tags", None, TagsColumn(activity[1]))
    /\ UNCHANGED <<fetchVars, activity>>

ComputeTitle ==
    /\ activity # None
    /\ result' = Computed("title", None, TitleColumn(activity[1]))
    /\ UNCHANGED <<fetchVars, activity>>

TransformNext == Get \/ ComputeEventName \/ ComputeTags \/ ComputeTitle

\* one record of a page, before any column of it is computed
TransformInit ==
    /\ limit = None
    /\ quals = [time |-> <<>>, actor_email |-> <<>>, ip_address |-> <<>>,
                event_name |-> <<>>]
    /\ InitRest
    /\ run = 0
    /\ activity \in {Some(a) : a \in Activities}
    /\ result = None

TransformSpec == TransformInit /\ [][TransformNext]_vars

TypeOK ==
    /\ pc \in {"service", "pagesize", "window", "filters", "loop", "await",
               "range", "capcheck", "rowcheck", "token", "done"}
    /\ totalCount = Len(streamed)
    /\ DOMAIN quals = ListKeyColumns

\* ------------------------------------------------------------ claims
Emitted == Len(streamed)

\* C1: the records emitted by one list invocation number at most
\* min(500, rowLimit) when a row limit is given, and at most 500 otherwise.
C1_EmittedWithinCaps ==
    Emitted <= (IF limit = None THEN maxTotalResults
                ELSE Min(maxTotalResults, limit[1]))

\* C2: when the resolved window has start strictly after end, the fetch has
\* returned with no record emitted, no page request issued and no error.
C2_EmptyWindowNoCall ==
    (window # None /\ window[1].start > window[1].end)
        => /\ pc = "done"
           /\ streamed = <<>>
           /\ calls = 0
           /\ lastReq = None
           /\ err = None

\* C2 witness: a window resolved from qualifiers with start after end.
C2_Witness ==
    /\ pc = "done"
    /\ window # None
    /\ window[1].start > window[1].end
    /\ Len(quals.time) = 2

\* C3: the fetch is finite: whatever the remote source answers, the fetch
\* eventually returns.
C3_FetchTerminates == <>(pc = "done")

\* the qualifiers of a time list that write the start bound, the end bound
StartWriters(qs) == {i \in DOMAIN qs : qs[i].value # None /\ qs[i].op \in {"=", ">", ">="}}
EndWriters(qs) == {i \in DOMAIN qs : qs[i].value # None /\ qs[i].op \in {"=", "<", "<="}}
Last(S) == CHOOSE i \in S : \A j \in S : j <= i

\* C4: the resolved window is the default [now - 180 days, now] with each
\* bound overwritten by the last qualifier that sets it: '=' and '>=' set
\* start to the value, '>' to the value plus one unit; '=' and '<=' set end to
\* the value, '<' to the value minus one unit.
C4_WindowIsLastWrite ==
    window # None =>
        LET qs == quals.time
            S == StartWriters(qs)
            E == EndWriters(qs)
            qS == qs[Last(S)]
            qE == qs[Last(E)]
        IN /\ window[1].start =
                IF S = {} THEN now[1] - 180 * 24 * 3600 * Second
                ELSE IF qS.op = ">" THEN qS.value[1] + 1 ELSE qS.value[1]
           /\ window[1].end =
                IF E = {} THEN now[1]
                ELSE IF qE.op = "<" THEN qE.value[1] - 1 ELSE qE.value[1]

\* C4 witness: two qualifiers have written the same bound, the later one won,
\* and the other bound kept its default.
C4_Witness ==
    /\ window # None
    /\ Len(quals.time) = 2
    /\ quals.time[1].op = "<=" /\ quals.time[1].value # None
    /\ quals.time[2].op = "<" /\ quals.time[2].value # None
    /\ quals.time[1].value # quals.time[2].value
    /\ window[1].end = quals.time[2].value[1] - 1
    /\ window[1].start = now[1] - DefaultLookback

\* C5: with time > v in force the startTime sent to the remote source denotes
\* an instant strictly later than v, and with time < v in force the endTime
\* sent denotes an instant strictly earlier than v.
C5_StrictExclusionAtRemote ==
    lastReq # None =>
        LET qs == quals.time
            S == StartWriters(qs)
            E == EndWriters(qs)
        IN /\ (S # {} /\ qs[Last(S)].op = ">")
                => InstantOf(lastReq[1].startTime[1]) > qs[Last(S)].value[1]
           /\ (E # {} /\ qs[Last(E)].op = "<")
                => InstantOf(lastReq[1].endTime[1]) < qs[Last(E)].value[1]

\* the half of C5 about '<' alone
C5_UpperHalf ==
    lastReq # None =>
        LET qs == quals.time
            E == EndWriters(qs)
        IN (E # {} /\ qs[Last(E)].op = "<")
                => InstantOf(lastReq[1].endTime[1]) < qs[Last(E)].value[1]

HasNonEmpty(qs) == \E i \in DOMAIN qs : qs[i] # ""
FirstValue(qs) == qs[CHOOSE i \in DOMAIN qs : qs[i] # "" /\ \A j \in 1..(i - 1) : qs[j] = ""]
EmailExprs == {"actor.email==\"" \o v \o "\"" : v \in EmailValues \ {""}}
IpExprs == {"ipAddress==\"" \o v \o "\"" : v \in IpValues \ {""}}
Positions(f, S) == {i \in DOMAIN f : f[i] \in S}

\* C6: a page request carries one actor.email=="value" expression when the
\* actor_email column has a non-empty qualifier and none otherwise, and the
\* same for ipAddress and ip_address; when both are present both are on the
\* same request.
C6_EmailAndIpFilters ==
    lastReq # None =>
        LET f == lastReq[1].filters
            em == quals.actor_email
            ip == quals.ip_address
        IN /\ IF HasNonEmpty(em)
              THEN \E i \in DOMAIN f :
                     /\ Positions(f, EmailExprs) = {i}
                     /\ f[i] = "actor.email==\"" \o FirstValue(em) \o "\""
              ELSE Positions(f, EmailExprs) = {}
           /\ IF HasNonEmpty(ip)
              THEN \E i \in DOMAIN f :
                     /\ Positions(f, IpExprs) = {i}
                     /\ f[i] = "ipAddress==\"" \o FirstValue(ip) \o "\""
              ELSE Positions(f, IpExprs) = {}

\* C6 witness: a later page request that carries both expressions, the
\* actor_email one taken past an empty qualifier.
C6_Witness ==
    /\ pc = "await"
    /\ calls = 2
    /\ quals.actor_email = <<"", "b@x.com">>
    /\ HasNonEmpty(quals.ip_address)
    /\ Len(lastReq[1].filters) = 2

\* C7: with a non-empty equality qualifier on the key column event_name, a
\* page request carries events.name=="value" for that value.
C7_EventNameFilter ==
    (lastReq # None /\ HasNonEmpty(quals.event_name))
        => \E i \in DOMAIN lastReq[1].filters :
             lastReq[1].filters[i]
                = "events.name==\"" \o FirstValue(quals.event_name) \o "\""

\* C8: every page request asks for at most 500 less the records already
\* emitted and, under a row limit, at most the limit less the records already
\* emitted; the first request asks for min(500, rowLimit), or 500 without one.
C8_PageSizeWithinBudget ==
    pc = "await" =>
        LET size == lastReq[1].maxResults[1] IN
        /\ size <= 500 - Emitted
        /\ limit # None => size <= limit[1] - Emitted
        /\ calls = 1 => size = (IF limit = None THEN 500 ELSE Min(500, limit[1]))

\* C8 witness: a second request under a row limit, after a record was emitted.
C8_Witness ==
    /\ pc = "await"
    /\ calls = 2
    /\ limit # None
    /\ Emitted > 0
    /\ lastReq[1].maxResults[1] = limit[1] - Emitted

\* the fetch has seen a reason to stop: the cap, or the host's zero
StopSeen ==
    \/ Emitted >= 500
    \/ pc = "rowcheck" /\ RowsRemainingIsZero

\* C9: once the emitted count has reached 500, or the host has answered that
\* no rows remain, the fetch returns: no record is emitted and no page request
\* is issued from then on; the host is asked only after the cap test passed.
C9_StopsAtCapOrBudget ==
    /\ [][StopSeen => /\ pc' = "done"
                      /\ streamed' = streamed
                      /\ calls' = calls
                      /\ lastReq' = lastReq]_vars
    /\ [][pc = "done" => UNCHANGED vars]_vars
    /\ [](pc = "rowcheck" => Emitted < 500)

\* C9 witness: the fetch returned at the cap, mid-page, with a continuation
\* token in hand.
C9_Witness ==
    /\ pc = "done"
    /\ Emitted = 500
    /\ idx < Len(resp.items)
    /\ resp.nextPageToken # ""

\* C10: when a page request fails the fetch returns that error; no page
\* request and no record follows, and the records emitted before stay.
C10_ErrorEndsFetch ==
    /\ [](doErr # None => pc = "done" /\ err = doErr)
    /\ [][doErr' # None => /\ streamed' = streamed
                           /\ calls' = calls
                           /\ lastReq' = lastReq]_vars

\* C10 witness: the second page request failed after records were emitted.
C10_Witness ==
    /\ doErr # None
    /\ err = doErr
    /\ calls = 2
    /\ Emitted > 0

\* C11: when the handle to the remote source cannot be built, the list
\* invocation returns that error, with no record emitted and no page request.
C11_ServiceErrorEndsFetch ==
    svcErr # None =>
        /\ pc = "done"
        /\ err = svcErr
        /\ streamed = <<>>
        /\ calls = 0
        /\ lastReq = None

\* C11 witness: the invocation has returned the service error.
C11_Witness ==
    /\ svcErr = Some("e2")
    /\ err = Some("e2")
    /\ pc = "done"

RequestsOf(t) == [i \in DOMAIN t |-> t[i].req]

\* the repetition has returned with the records and the page requests of the
\* first fetch
SameAsFirstFetch ==
    /\ streamed = prev[1].streamed
    /\ RequestsOf(trace) = RequestsOf(prev[1].trace)

\* C12 as stated: a repeated fetch with the same qualifiers, filters and row
\* limit against an unchanged remote source emits the same records and issues
\* the same page requests, also when the window is the default one.
C12_RepeatSame ==
    (run = 2 /\ pc = "done") => SameAsFirstFetch

\* C12 amended: the same holds when both fetches resolve the same time
\* window, which is always so when the time qualifiers set both the start and
\* the end of the window.
C12_RepeatSameWindow ==
    (run = 2 /\ pc = "done") =>
        /\ (StartWriters(quals.time) # {} /\ EndWriters(quals.time) # {})
                => window = prev[1].window
        /\ window = prev[1].window => SameAsFirstFetch

\* C12 witness: a repetition under a closed window, with a later clock, that
\* emitted a record and issued two page requests.
C12_Witness ==
    /\ run = 2
    /\ pc = "done"
    /\ StartWriters(quals.time) # {}
    /\ EndWriters(quals.time) # {}
    /\ now # None
    /\ prev[1].now # None
    /\ now[1] > prev[1].now[1]
    /\ Len(trace) = 2
    /\ streamed # <<>>

Did(op) == result # None /\ result[1].op = op
Out == result[1].out
Item == activity[1]

\* C13: the point lookup returns no record and no error for every key, and
\* makes no call to the remote source.
C13_GetIsStub ==
    Did("get") =>
        /\ Out.value = None
        /\ Out.err = None
        /\ calls = 0
        /\ lastReq = None

\* C13 witness: the lookup was made for a key.
C13_Witness ==
    /\ Did("get")
    /\ result[1].key = Some([time |-> "2024-01-02T00:00:00Z",
                             unique_qualifier |-> "2",
                             actor_email |-> "a@b.com"])

NamesOf(es) == [i \in DOMAIN es |-> es[i].Name]
NonEmptyNames(es) == SelectSeq(NamesOf(es), LAMBDA n : n # "")

\* C14 as stated: for every record the tags are the non-empty event names in
\* their order, an empty sequence when the record has no event.
C14_TagsAreNonEmptyNames ==
    Did("tags") =>
        Out.value = Some(NonEmptyNames(IF Item.Events = None THEN <<>>
                                       ELSE Item.Events[1]))

\* C14 amended: for a record whose events list is present, empty or not, the
\* tags are the non-empty event names in their order; for a record whose
\* events are absent no value is returned; in both cases without an error.
C14_TagsOfPresentEvents ==
    Did("tags") =>
        /\ Out.err = None
        /\ Item.Events # None => Out.value = Some(NonEmptyNames(Item.Events[1]))
        /\ Item.Events = None => Out.value = None

\* C14 witness: three events, the middle one unnamed.
C14_Witness ==
    /\ Did("tags")
    /\ Item.Events # None
    /\ NamesOf(Item.Events[1]) = <<"login_success", "", "login_failure">>
    /\ Out.value = Some(<<"login_success", "login_failure">>)

NoEvents(a) == a.Events = None \/ a.Events[1] = <<>>
NoEmail(a) == a.Actor = None \/ a.Actor[1].Email = ""
NoTime(a) == a.Id = None \/ a.Id[1].Time = ""

\* C15: when events, actor (or its email) or identity (or its timestamp) is
\* absent or empty, the first event name, the tags and the title are computed
\* without an error and the part derived from the absent sub-field is empty
\* or absent.
C15_AbsentDegrades ==
    (result # None /\ result[1].op # "get") =>
        /\ Out.err = None
        /\ (Did("event_name") /\ NoEvents(Item)) => Out.value = Some("")
        /\ (Did("tags") /\ NoEvents(Item)) => Out.value \in {None, Some(<<>>)}
        /\ (Did("title") /\ NoTime(Item) /\ NoEmail(Item)) => Out.value = Some("")
        /\ (Did("title") /\ NoTime(Item) /\ ~NoEmail(Item))
               => Out.value = Some(" - " \o Item.Actor[1].Email)
        /\ (Did("title") /\ ~NoTime(Item) /\ NoEmail(Item))
               => Out.value = Some(Item.Id[1].Time)

\* C15 witness: the first event name of a record without events, actor and
\* identity.
C15_Witness ==
    /\ Did("event_name")
    /\ Item = [Events |-> None, Actor |-> None, Id |-> None]
    /\ Out = Return(Some(""), None)

TimestampString(a) == IF a.Id = None THEN "" ELSE a.Id[1].Time

\* C16: the title is the timestamp string alone when the actor or its email
\* is absent or empty, and otherwise the timestamp string, " - " and the
\* actor's email.
C16_Title ==
    Did("title") =>
        Out.value = Some(IF NoEmail(Item) THEN TimestampString(Item)
                         ELSE TimestampString(Item) \o " - " \o Item.Actor[1].Email)

\* C16 witness: a title made of a timestamp and an email.
C16_Witness ==
    /\ Did("title")
    /\ Out.value = Some("2024-01-01T00:00:00Z - a@b.com")

\* C17: the first page request carries no continuation token, every later
\* one carries exactly the non-empty token of the response just before it,
\* and no page request follows a response whose token is empty.
C17_TokenChain ==
    [][(pc = "loop" /\ pc' = "await") =>
          IF calls = 0
          THEN lastReq'[1].pageToken = None
          ELSE /\ resp.nextPageToken # ""
               /\ lastReq'[1].pageToken = Some(resp.nextPageToken)]_vars

\* C17 witness: a second page request is on the wire with the token of the
\* first response.
C17_Witness ==
    /\ pc = "await"
    /\ calls = 2
    /\ resp.nextPageToken = "t2"
    /\ lastReq[1].pageToken = Some("t2")
    /\ streamed # <<>>

\* the records of the pages returned so far, in request order
Returned == [i \in 1..served |-> i]

\* C18: the records emitted so far are a prefix of the pages returned so far,
\* concatenated in request order, and no page request is issued while one is
\* outstanding.
C18_EmittedIsPrefix ==
    /\ [](Len(streamed) <= served /\ streamed = SubSeq(Returned, 1, Len(streamed)))
    /\ [][pc = "await" => (lastReq' = lastReq /\ calls' = calls)]_vars

\* C18 witness: three records of two pages emitted, a record of the second
\* page not yet.
C18_Witness ==
    /\ streamed = <<1, 2, 3>>
    /\ pages = 2
    /\ served > 3
====
